---- MODULE Spec2Model ----
(***************************************************************************)
(* A model of the GitLab MCP server (src/src/gitlab/index.ts): the         *)
(* list-tools handler, the call-tool handler with its suspension points    *)
(* (one per awaited API function), and the part of GitLab the handlers     *)
(* talk to.  Values are tagged records so that serialisation and           *)
(* formatting are computed, not assumed.                                   *)
(***************************************************************************)
EXTENDS Integers, Sequences, FiniteSets, TLC

\* ------------------------------------------------------------------ bounds

\* Longest tree listing the mocked getRepositoryTree returns.
MaxTreeLen == 2

\* Number of tool-call requests that may be in flight at once (SpecConc).
MaxInFlight == 2

\* ------------------------------------------------------------------ values

\* A JavaScript value: a missing property, a string, a number (its decimal
\* literal), an array, an object (a sequence of <<key, value>> pairs, in
\* insertion order).
Undef == [t |-> "undefined"]

Str(s) == [t |-> "string", v |-> s]

Num(s) == [t |-> "number", v |-> s]

Arr(s) == [t |-> "array", v |-> s]

Obj(kvs) == [t |-> "object", v |-> kvs]

\* obj[key] of a JavaScript object (undefined when the key is missing).
RECURSIVE GetFrom(_, _)
GetFrom(kvs, key) ==
  IF kvs = <<>> THEN Undef
  ELSE IF Head(kvs)[1] = key THEN Head(kvs)[2]
  ELSE GetFrom(Tail(kvs), key)

Get(o, key) == IF o.t = "object" THEN GetFrom(o.v, key) ELSE Undef

\* !x of JavaScript, for the values a string-typed optional property takes.
Falsy(x) == x.t = "undefined" \/ (x.t = "string" /\ x.v = "")

\* Array.prototype.join
RECURSIVE Join(_, _)
Join(strs, sep) ==
  IF strs = <<>> THEN ""
  ELSE IF Len(strs) = 1 THEN strs[1]
  ELSE strs[1] \o sep \o Join(Tail(strs), sep)

\* Array.prototype.map
MapSeq(Op(_), s) == [i \in 1..Len(s) |-> Op(s[i])]

\* Array.prototype.filter
RECURSIVE FilterSeq(_, _)
FilterSeq(Test(_), s) ==
  IF s = <<>> THEN <<>>
  ELSE IF Test(Head(s)) THEN <<Head(s)>> \o FilterSeq(Test, Tail(s))
  ELSE FilterSeq(Test, Tail(s))

\* Sequences over S of length at most n.
SeqsUpTo(S, n) == UNION {[1..k -> S] : k \in 0..n}

Spaces(n) == Join([i \in 1..(n + 1) |-> ""], " ")

\* JSON.stringify(value, null, 2): two-space indentation, one element or
\* property per line, empty arrays and objects on one line.
RECURSIVE Stringify(_, _)
Stringify(x, indent) ==
  CASE x.t = "string" -> "\"" \o x.v \o "\""
    [] x.t = "number" -> x.v
    [] x.t = "array" ->
         IF x.v = <<>> THEN "[]"
         ELSE "[\n"
              \o Join([i \in 1..Len(x.v) |->
                         Spaces(indent + 2) \o Stringify(x.v[i], indent + 2)],
                      ",\n")
              \o "\n" \o Spaces(indent) \o "]"
    [] x.t = "object" ->
         IF x.v = <<>> THEN "{}"
         ELSE "{\n"
              \o Join([i \in 1..Len(x.v) |->
                         Spaces(indent + 2) \o "\"" \o x.v[i][1] \o "\": "
                         \o Stringify(x.v[i][2], indent + 2)],
                      ",\n")
              \o "\n" \o Spaces(indent) \o "}"

JSONstringify(x) == Stringify(x, 0)

\* ------------------------------------------------------------ list-tools

\* The tools array of the list-tools handler, in its order.
tools ==
  << "create_or_update_file", "search_repositories", "create_repository",
     "get_file_contents", "get_repository_tree", "push_files",
     "create_issue", "create_merge_request", "fork_repository",
     "create_branch" >>

readonlyTools == <<"search_repositories", "get_repository_tree", "get_file_contents">>

Includes(s, x) == \E i \in 1..Len(s) : s[i] = x

IsReadonlyTool(name) == Includes(readonlyTools, name)

ListToolsUnfiltered(ro) == tools

\* The handler's return value: tools.filter(...) in readonly mode, tools
\* otherwise.
ListToolsResult(ro) == IF ro THEN FilterSeq(IsReadonlyTool, tools) ELSE tools

\* The ten tools the README documents, and the three it names for readonly.
Catalog ==
  { "create_or_update_file", "push_files", "search_repositories",
    "create_repository", "get_file_contents", "create_issue",
    "create_merge_request", "fork_repository", "create_branch",
    "get_repository_tree" }

ReadonlyCatalog == {"search_repositories", "get_repository_tree", "get_file_contents"}

\* ---------------------------------------------------------------- schemas

\* One property of an input schema: its key, its type, whether it is required.
F(name, type, required) == [name |-> name, type |-> type, required |-> required]

\* The input schema of each tool, as the README documents the tool's inputs
\* (get_repository_tree's project_id and per_page are the ones its case of
\* the handler reads).
Schema(name) ==
  CASE name = "create_or_update_file" ->
         << F("project_id", "string", TRUE), F("file_path", "string", TRUE),
            F("content", "string", TRUE), F("commit_message", "string", TRUE),
            F("branch", "string", TRUE), F("previous_path", "string", FALSE) >>
    [] name = "push_files" ->
         << F("project_id", "string", TRUE), F("branch", "string", TRUE),
            F("files", "array", TRUE), F("commit_message", "string", TRUE) >>
    [] name = "search_repositories" ->
         << F("search", "string", TRUE), F("page", "number", FALSE),
            F("per_page", "number", FALSE) >>
    [] name = "create_repository" ->
         << F("name", "string", TRUE), F("description", "string", FALSE),
            F("visibility", "string", FALSE),
            F("initialize_with_readme", "boolean", FALSE) >>
    [] name = "get_file_contents" ->
         << F("project_id", "string", TRUE), F("file_path", "string", TRUE),
            F("ref", "string", FALSE) >>
    [] name = "create_issue" ->
         << F("project_id", "string", TRUE), F("title", "string", TRUE),
            F("description", "string", FALSE), F("assignee_ids", "array", FALSE),
            F("labels", "array", FALSE), F("milestone_id", "number", FALSE) >>
    [] name = "create_merge_request" ->
         << F("project_id", "string", TRUE), F("title", "string", TRUE),
            F("description", "string", FALSE), F("source_branch", "string", TRUE),
            F("target_branch", "string", TRUE), F("draft", "boolean", FALSE),
            F("allow_collaboration", "boolean", FALSE) >>
    [] name = "fork_repository" ->
         << F("project_id", "string", TRUE), F("namespace", "string", FALSE) >>
    [] name = "create_branch" ->
         << F("project_id", "string", TRUE), F("branch", "string", TRUE),
            F("ref", "string", FALSE) >>
    [] name = "get_repository_tree" ->
         << F("project_id", "string", TRUE), F("path", "string", FALSE),
            F("ref", "string", FALSE), F("recursive", "boolean", FALSE),
            F("per_page", "number", FALSE) >>

AllFields ==
  UNION {{Schema(tools[i])[j].name : j \in 1..Len(Schema(tools[i]))} : i \in 1..Len(tools)}

\* ----------------------------------------------------------------- errors

Error(message) == [class |-> "Error", message |-> message, issues |-> <<>>]

\* A ZodError: its issues, each with the path of the failing property and
\* the validator's message.
ZodError(issues) == [class |-> "ZodError", message |-> "ZodError", issues |-> issues]

Issue(path, message) == [path |-> path, message |-> message]

\* Schema.parse(request.params.arguments): the issues, one per failing
\* property in schema order; none when the arguments are valid.
ParseIssues(name, arguments) ==
  LET schema == Schema(name)
      Fails(f) == IF arguments[f.name].t = "undefined"
                  THEN f.required
                  ELSE arguments[f.name].t # f.type
      IssueOf(f) == IF arguments[f.name].t = "undefined"
                    THEN Issue(<<f.name>>, "Required")
                    ELSE Issue(<<f.name>>,
                               "Expected " \o f.type \o ", received "
                               \o arguments[f.name].t)
  IN  MapSeq(IssueOf, FilterSeq(Fails, schema))

\* The parsed arguments: the schema's properties of the caller's object.
Parsed(name, arguments) ==
  [k \in {Schema(name)[j].name : j \in 1..Len(Schema(name))} |-> arguments[k]]

\* `${e.path.join('.')}: ${e.message}`
IssueEntry(e) == Join(e.path, ".") \o ": " \o e.message

\* The catch block of the call-tool handler: what the handler throws for an
\* error raised anywhere inside its try block.
Catch(error) ==
  IF error.class = "ZodError"
  THEN Error("Invalid arguments: " \o Join(MapSeq(IssueEntry, error.issues), ", "))
  ELSE error

\* ----------------------------------------------------- the call-tool cases

\* One invocation of a function of gitlab-api.js, as a mock records it.
Call(fn, args) == [fn |-> fn, args |-> args]

\* The properties of the parsed arguments that are present, in schema
\* order, without those named in `except`: `const { project_id, ...options }
\* = args` with except = {"project_id"}, `args` itself with except = {}.
Rest(name, a, except) ==
  LET Kept(f) == f.name \notin except /\ a[f.name].t # "undefined"
      Pair(f) == <<f.name, a[f.name]>>
  IN  Obj(MapSeq(Pair, FilterSeq(Kept, Schema(name))))

\* f => ({ path: f.file_path, content: f.content })
FileAction(f) == Obj(<< <<"path", Get(f, "file_path")>>, <<"content", Get(f, "content")>> >>)

\* `if (!ref)` of the create_branch case.
NeedsDefaultBranchRefStrict(ref) == ref.t = "undefined"

NeedsDefaultBranchRef(ref) == Falsy(ref)

\* The ref property of the object the create_branch case hands to
\* createBranch: its local `ref`.
BranchRefFromArgs(a, ref) == a["ref"]

BranchRef(a, ref) == ref

\* The API function each case awaits last, with the arguments it passes.
ApiCall(name, a, ref) ==
  CASE name = "fork_repository" ->
         Call("forkProject", <<a["project_id"], a["namespace"]>>)
    [] name = "create_branch" ->
         Call("createBranch",
              << a["project_id"],
                 Obj(<< <<"name", a["branch"]>>, <<"ref", BranchRef(a, ref)>> >>) >>)
    [] name = "search_repositories" ->
         Call("searchProjects", <<a["search"], a["page"], a["per_page"]>>)
    [] name = "create_repository" ->
         Call("createRepository", <<Rest(name, a, {})>>)
    [] name = "get_file_contents" ->
         Call("getFileContents", <<a["project_id"], a["file_path"], a["ref"]>>)
    [] name = "get_repository_tree" ->
         Call("getRepositoryTree",
              <<a["project_id"], a["path"], a["ref"], a["recursive"], a["per_page"]>>)
    [] name = "create_or_update_file" ->
         Call("createOrUpdateFile",
              << a["project_id"], a["file_path"], a["content"],
                 a["commit_message"], a["branch"], a["previous_path"] >>)
    [] name = "push_files" ->
         Call("createCommit",
              << a["project_id"], a["commit_message"], a["branch"],
                 Arr(MapSeq(FileAction, a["files"].v)) >>)
    [] name = "create_issue" ->
         Call("createIssue", <<a["project_id"], Rest(name, a, {"project_id"})>>)
    [] name = "create_merge_request" ->
         Call("createMergeRequest", <<a["project_id"], Rest(name, a, {"project_id"})>>)

IsTreeItem(item) == Get(item, "type") = Str("tree")

IsBlobItem(item) == Get(item, "type") = Str("blob")

FolderLine(dir) == "Folder: " \o Get(dir, "path").v \o "/\n"

FileLine(file) == "File: " \o Get(file, "path").v \o "\n"

\* The get_repository_tree case's formattedTree.
FormatTree(tree) ==
  "Repository directory structure:\n\n"
  \o Join(MapSeq(FolderLine, FilterSeq(IsTreeItem, tree.v)), "")
  \o Join(MapSeq(FileLine, FilterSeq(IsBlobItem, tree.v)), "")

ResultTextAllFormatted(name, value) ==
  IF value.t = "array" THEN FormatTree(value) ELSE JSONstringify(value)

\* The text of the content a case returns for the value its API function
\* returned.
ResultText(name, value) ==
  IF name = "get_repository_tree" THEN FormatTree(value) ELSE JSONstringify(value)

\* ------------------------------------------------------------------ GitLab

\* The functions of gitlab-api.js that change the project or the account.
ModifyingFns ==
  { "forkProject", "createBranch", "createRepository", "createOrUpdateFile",
    "createCommit", "createIssue", "createMergeRequest" }

\* The branch a file change is committed to.
CommitBranch(call) ==
  CASE call.fn = "createOrUpdateFile" -> call.args[5].v
    [] call.fn = "createCommit" -> call.args[3].v
    [] OTHER -> ""

TreeItems ==
  { Obj(<< <<"path", Str("src")>>, <<"type", Str("tree")>> >>),
    Obj(<< <<"path", Str("a.txt")>>, <<"type", Str("blob")>> >>),
    Obj(<< <<"path", Str("lib")>>, <<"type", Str("commit")>> >>) }

ObjectResults ==
  { Obj(<< <<"id", Num("1")>>, <<"name", Str("a")>> >>),
    Arr(<< Obj(<< <<"id", Num("2")>>, <<"tags", Arr(<<>>)>> >>), Str("b") >>) }

\* What an API function may return for a call, given the project's
\* branches: GitLab commits a file change only to a branch that exists.
ApiResults(call, existing) ==
  CASE call.fn = "getDefaultBranchRef" -> {Str("main"), Str("dev")}
    [] call.fn = "getRepositoryTree" -> {Arr(s) : s \in SeqsUpTo(TreeItems, MaxTreeLen)}
    [] call.fn \in {"createOrUpdateFile", "createCommit"} ->
         IF CommitBranch(call) \in existing THEN ObjectResults ELSE {}
    [] OTHER -> ObjectResults

\* What an API function may throw: a failed HTTP exchange, or a response
\* body its response schema rejects.
ApiErrors ==
  { Error("GitLab API error: Bad Request"),
    ZodError(<<Issue(<<"id">>, "Required")>>) }

\* The project's branches after a call succeeded.
BranchesAfter(call, existing) ==
  IF call.fn = "createBranch" /\ Get(call.args[2], "name").t = "string"
  THEN existing \cup {Get(call.args[2], "name").v}
  ELSE existing

\* ------------------------------------------------------------------ inputs

ArgsObj(f) == [t |-> "object", v |-> f]

ValidArguments ==
  [k \in AllFields |->
     CASE k = "project_id" -> Str("p1")
       [] k = "file_path" -> Str("a.txt")
       [] k = "content" -> Str("hi")
       [] k = "commit_message" -> Str("msg")
       [] k = "branch" -> Str("feat")
       [] k = "search" -> Str("q")
       [] k = "name" -> Str("repo")
       [] k = "title" -> Str("t")
       [] k = "source_branch" -> Str("feat")
       [] k = "target_branch" -> Str("main")
       [] k = "files" ->
            Arr(<<Obj(<< <<"file_path", Str("a.txt")>>, <<"content", Str("hi")>> >>)>>)
       [] OTHER -> Undef]

\* request.params.arguments: missing, valid for every tool (ref omitted,
\* empty, or given; the branch missing from the project or existing), or
\* failing validation in one or several properties.
ArgumentChoices ==
  { Undef,
    ArgsObj(ValidArguments),
    ArgsObj([ValidArguments EXCEPT !["ref"] = Str("")]),
    ArgsObj([ValidArguments EXCEPT !["ref"] = Str("dev")]),
    ArgsObj([ValidArguments EXCEPT !["branch"] = Str("main")]),
    ArgsObj([ValidArguments EXCEPT !["project_id"] = Undef]),
    ArgsObj([ValidArguments EXCEPT !["project_id"] = Num("7"), !["branch"] = Undef,
                                   !["search"] = Undef, !["name"] = Num("7")]) }

\* request.params.name: the ten tools and a name the switch does not know.
NameChoices == {tools[i] : i \in 1..Len(tools)} \cup {"delete_repository"}

\* The requests of the concurrent specification.
ConcNameChoices == {"create_branch", "create_or_update_file"}

ConcArgumentChoices ==
  { ArgsObj(ValidArguments),
    ArgsObj([ValidArguments EXCEPT !["ref"] = Str("dev")]) }

Slots == 1..MaxInFlight

\* ------------------------------------------------------------------- state

VARIABLES
  isReadOnly,   \* values.readonly, parsed from the command line at startup
  listed,       \* the list-tools responses returned so far
  pc,           \* per request slot: where its handler invocation stands
  request,      \* per slot: request.params (name, arguments)
  ref,          \* per slot: the create_branch case's local `ref`
  calls,        \* per slot: the API calls the invocation has issued
  apiRes,       \* per slot: the values the API calls returned to it
  failure,      \* per slot: the error raised inside the try block, if any
  resp,         \* per slot: what the handler returned or threw
  branches      \* the branches of the GitLab project

vars == <<isReadOnly, listed, pc, request, ref, calls, apiRes, failure, resp, branches>>

NoRequest == [name |-> "", arguments |-> Undef]

NoFailure == [origin |-> "none", error |-> Error("")]

NoResponse == [kind |-> "none", text |-> "", error |-> Error("")]

Result(text) == [kind |-> "result", text |-> text, error |-> Error("")]

Thrown(error) == [kind |-> "error", text |-> "", error |-> error]

Failure(origin, error) == [origin |-> origin, error |-> error]

Init ==
  /\ isReadOnly \in BOOLEAN
  /\ listed = {}
  /\ pc = [r \in Slots |-> "idle"]
  /\ request = [r \in Slots |-> NoRequest]
  /\ ref = [r \in Slots |-> Undef]
  /\ calls = [r \in Slots |-> <<>>]
  /\ apiRes = [r \in Slots |-> <<>>]
  /\ failure = [r \in Slots |-> NoFailure]
  /\ resp = [r \in Slots |-> NoResponse]
  /\ branches = {"main"}

\* ----------------------------------------------------------------- actions

\* The binding of `ref` an invocation reads: its own (a `let` inside the
\* case's block).
RefOfFirstSlot(r, refs) == refs[1]

RefOf(r, refs) == refs[r]

\* The error the handler's try block raises before its first await, if any:
\* the arguments check, the switch's default, the schema's parse.
Entry(name, arguments) ==
  IF arguments.t = "undefined"
  THEN Failure("arguments", Error("Arguments are required"))
  ELSE IF ~Includes(tools, name)
  THEN Failure("tool", Error("Unknown tool: " \o name))
  ELSE IF ParseIssues(name, arguments.v) # <<>>
  THEN Failure("schema", ZodError(ParseIssues(name, arguments.v)))
  ELSE NoFailure

Args(r) == Parsed(request[r].name, request[r].arguments.v)

\* The list-tools handler.
ListTools ==
  /\ listed' = listed \cup {ListToolsResult(isReadOnly)}
  /\ UNCHANGED <<isReadOnly, pc, request, ref, calls, apiRes, failure, resp, branches>>

\* The call-tool handler, from its entry to its first await, or to its throw.
CallTool(r, name, arguments) ==
  /\ pc[r] = "idle"
  /\ request' = [request EXCEPT ![r] = [name |-> name, arguments |-> arguments]]
  /\ LET f == Entry(name, arguments)
         a == Parsed(name, arguments.v)
     IN  IF f.origin # "none"
         THEN /\ failure' = [failure EXCEPT ![r] = f]
              /\ resp' = [resp EXCEPT ![r] = Thrown(Catch(f.error))]
              /\ pc' = [pc EXCEPT ![r] = "done"]
              /\ UNCHANGED <<ref, calls>>
         ELSE IF name = "create_branch"
         THEN /\ ref' = [ref EXCEPT ![r] = a["ref"]]
              /\ IF NeedsDefaultBranchRef(RefOf(r, ref'))
                 THEN /\ calls' = [calls EXCEPT ![r] =
                                     <<Call("getDefaultBranchRef", <<a["project_id"]>>)>>]
                      /\ pc' = [pc EXCEPT ![r] = "awaitDefaultBranchRef"]
                 ELSE /\ calls' = [calls EXCEPT ![r] = <<ApiCall(name, a, RefOf(r, ref'))>>]
                      /\ pc' = [pc EXCEPT ![r] = "awaitApi"]
              /\ UNCHANGED <<failure, resp>>
         ELSE /\ calls' = [calls EXCEPT ![r] = <<ApiCall(name, a, Undef)>>]
              /\ pc' = [pc EXCEPT ![r] = "awaitApi"]
              /\ UNCHANGED <<ref, failure, resp>>
  /\ UNCHANGED <<isReadOnly, listed, apiRes, branches>>

\* getDefaultBranchRef returns: the create_branch case assigns `ref` and
\* goes on to await createBranch.
DefaultBranchRefReturned(r) ==
  /\ pc[r] = "awaitDefaultBranchRef"
  /\ \E b \in ApiResults(calls[r][Len(calls[r])], branches) :
       /\ apiRes' = [apiRes EXCEPT ![r] = Append(@, b)]
       /\ ref' = [ref EXCEPT ![r] = b]
       /\ calls' = [calls EXCEPT ![r] =
                      Append(@, ApiCall(request[r].name, Args(r), RefOf(r, ref')))]
  /\ pc' = [pc EXCEPT ![r] = "awaitApi"]
  /\ UNCHANGED <<isReadOnly, listed, request, failure, resp, branches>>

\* The API function a case awaits last returns: the case returns its content.
ApiReturned(r) ==
  /\ pc[r] = "awaitApi"
  /\ \E v \in ApiResults(calls[r][Len(calls[r])], branches) :
       /\ apiRes' = [apiRes EXCEPT ![r] = Append(@, v)]
       /\ resp' = [resp EXCEPT ![r] = Result(ResultText(request[r].name, v))]
  /\ branches' = BranchesAfter(calls[r][Len(calls[r])], branches)
  /\ pc' = [pc EXCEPT ![r] = "done"]
  /\ UNCHANGED <<isReadOnly, listed, request, ref, calls, failure>>

\* An awaited API function throws: the catch block rethrows.
ApiFailed(r) ==
  /\ pc[r] \in {"awaitDefaultBranchRef", "awaitApi"}
  /\ \E e \in ApiErrors :
       /\ failure' = [failure EXCEPT ![r] = Failure("api", e)]
       /\ resp' = [resp EXCEPT ![r] = Thrown(Catch(e))]
  /\ pc' = [pc EXCEPT ![r] = "done"]
  /\ UNCHANGED <<isReadOnly, listed, request, ref, calls, apiRes, branches>>

\* The response leaves the server; nothing of the invocation remains.
Deliver(r) ==
  /\ pc[r] = "done"
  /\ pc' = [pc EXCEPT ![r] = "idle"]
  /\ request' = [request EXCEPT ![r] = NoRequest]
  /\ ref' = [ref EXCEPT ![r] = Undef]
  /\ calls' = [calls EXCEPT ![r] = <<>>]
  /\ apiRes' = [apiRes EXCEPT ![r] = <<>>]
  /\ failure' = [failure EXCEPT ![r] = NoFailure]
  /\ resp' = [resp EXCEPT ![r] = NoResponse]
  /\ UNCHANGED <<isReadOnly, listed, branches>>

\* One request at a time, with every tool name and every arguments choice.
Next ==
  \/ ListTools
  \/ \E name \in NameChoices, arguments \in ArgumentChoices : CallTool(1, name, arguments)
  \/ DefaultBranchRefReturned(1)
  \/ ApiReturned(1)
  \/ ApiFailed(1)
  \/ Deliver(1)

Spec == Init /\ [][Next]_vars

\* Up to MaxInFlight requests in flight, their handlers interleaved at the
\* awaits.
NextConc ==
  \/ ListTools
  \/ \E r \in Slots :
       \/ \E name \in ConcNameChoices, arguments \in ConcArgumentChoices :
            CallTool(r, name, arguments)
       \/ DefaultBranchRefReturned(r)
       \/ ApiReturned(r)
       \/ ApiFailed(r)
       \/ Deliver(r)

SpecConc == Init /\ [][NextConc]_vars

\* ------------------------------------------------------------- properties

ToSet(s) == {s[i] : i \in 1..Len(s)}

IsPrefix(s, t) == Len(s) <= Len(t) /\ \A i \in 1..Len(s) : s[i] = t[i]

LastCall(r) == calls[r][Len(calls[r])]

\* The request named a tool of the switch and its arguments passed the
\* tool's schema.
PassedValidation(r) == pc[r] # "idle" /\ failure[r].origin \in {"none", "api"}

\* The caller's ref property, as the create_branch schema parsed it.
CallerRef(r) == Args(r)["ref"]

FileTools == {"create_or_update_file", "push_files"}

\* C1: in readonly mode no invocation ever calls a modifying API function.
C1_ReadonlyNeverModifies ==
  isReadOnly =>
    \A r \in Slots : \A i \in 1..Len(calls[r]) : calls[r][i].fn \notin ModifyingFns

\* C2: every list-tools response holds each tool once; its tools are the
\* three readonly tools of the README in readonly mode and the README's ten
\* otherwise; all responses of one run are the same.
C2_ListToolsExact ==
  /\ \A l \in listed :
       /\ Cardinality(ToSet(l)) = Len(l)
       /\ ToSet(l) = IF isReadOnly THEN ReadonlyCatalog ELSE Catalog
  /\ Cardinality(listed) <= 1

C2_Witness == isReadOnly /\ listed # {} /\ pc[1] = "done"

\* C3, as claimed: for every tool, the text of a successful response is the
\* JSON serialisation of the value the API function returned.
C3_AllForwardUnchanged ==
  \A r \in Slots :
    resp[r].kind = "result" =>
      resp[r].text = JSONstringify(apiRes[r][Len(apiRes[r])])

\* C3, amended: the same for the nine tools other than get_repository_tree.
C3_NineForwardUnchanged ==
  \A r \in Slots :
    (resp[r].kind = "result" /\ request[r].name # "get_repository_tree") =>
      resp[r].text = JSONstringify(apiRes[r][Len(apiRes[r])])

C3_Witness ==
  /\ resp[1].kind = "result"
  /\ request[1].name = "search_repositories"
  /\ apiRes[1][Len(apiRes[1])].t = "array"

\* C4, as claimed: a request that passed validation has issued exactly one
\* API call when its response is ready.
C4_ExactlyOneCall ==
  \A r \in Slots : (pc[r] = "done" /\ PassedValidation(r)) => Len(calls[r]) = 1

\* C4, amended: exactly one API call, except create_branch with ref omitted
\* or empty, which calls getDefaultBranchRef first and, unless that failed,
\* createBranch second.
C4_OneCallOrTwo ==
  \A r \in Slots :
    (pc[r] = "done" /\ PassedValidation(r)) =>
      IF request[r].name = "create_branch" /\ Falsy(CallerRef(r))
      THEN /\ calls[r][1].fn = "getDefaultBranchRef"
           /\ IF apiRes[r] = <<>>
              THEN Len(calls[r]) = 1
              ELSE Len(calls[r]) = 2 /\ calls[r][2].fn = "createBranch"
      ELSE Len(calls[r]) = 1

C4_Witness ==
  /\ pc[1] = "done"
  /\ PassedValidation(1)
  /\ request[1].name = "create_branch"
  /\ CallerRef(1) = Str("")
  /\ Len(calls[1]) = 2
  /\ resp[1].kind = "result"

\* C5: a schema failure is thrown as 'Invalid arguments: ' and one
\* '<path>: <message>' entry per failing property; every other failure is
\* thrown as the very error that was raised; no failure yields a result.
C5_ErrorsPassThrough ==
  \A r \in Slots :
    failure[r].origin # "none" =>
      /\ resp[r].kind = "error"
      /\ IF failure[r].origin = "schema"
         THEN resp[r].error =
                Error("Invalid arguments: "
                      \o Join(MapSeq(IssueEntry, failure[r].error.issues), ", "))
         ELSE resp[r].error = failure[r].error

\* C6, as claimed: createBranch gets the result of getDefaultBranchRef
\* exactly when the caller omitted ref; a supplied ref is passed unchanged
\* and getDefaultBranchRef is not called.
C6_DefaultRefIffOmitted ==
  \A r \in Slots : \A i \in 1..Len(calls[r]) :
    /\ calls[r][i].fn = "createBranch" =>
         IF CallerRef(r).t = "undefined"
         THEN /\ i = 2 /\ calls[r][1].fn = "getDefaultBranchRef"
              /\ Get(calls[r][i].args[2], "ref") = apiRes[r][1]
         ELSE /\ i = 1
              /\ Get(calls[r][i].args[2], "ref") = CallerRef(r)
    /\ calls[r][i].fn = "getDefaultBranchRef" =>
         request[r].name = "create_branch" /\ CallerRef(r).t = "undefined"

\* C6, amended: the same with "omitted" read as "omitted or the empty
\* string".
C6_DefaultRefIffFalsy ==
  \A r \in Slots : \A i \in 1..Len(calls[r]) :
    /\ calls[r][i].fn = "createBranch" =>
         IF Falsy(CallerRef(r))
         THEN /\ i = 2 /\ calls[r][1].fn = "getDefaultBranchRef"
              /\ calls[r][1].args = <<Args(r)["project_id"]>>
              /\ Get(calls[r][i].args[2], "ref") = apiRes[r][1]
         ELSE /\ i = 1
              /\ Get(calls[r][i].args[2], "ref") = CallerRef(r)
    /\ calls[r][i].fn = "getDefaultBranchRef" =>
         request[r].name = "create_branch" /\ Falsy(CallerRef(r))

C6_Witness ==
  /\ PassedValidation(1)
  /\ request[1].name = "create_branch"
  /\ CallerRef(1).t = "undefined"
  /\ Len(calls[1]) = 2
  /\ Get(calls[1][2].args[2], "ref") = Str("dev")

\* C7: when a file change is sent for a branch, the branch exists in the
\* project (it was created first if it was missing), so the change can be
\* committed.
C7_BranchExistsWhenCommitting ==
  \A r \in Slots :
    (request[r].name \in FileTools /\ pc[r] = "awaitApi") =>
      CommitBranch(LastCall(r)) \in branches

\* C8: two invocations with the same name and arguments that were handed
\* the same API outcomes stand at the same point, have issued the same
\* calls and hold the same response, whatever was handled before or in
\* between; with a shorter run of the same outcomes, a prefix of the calls.
C8_Stateless ==
  \A r1 \in Slots, r2 \in Slots :
    (pc[r1] # "idle" /\ request[r1] = request[r2]) =>
      /\ (IsPrefix(apiRes[r1], apiRes[r2]) /\ failure[r1] = NoFailure) =>
           IsPrefix(calls[r1], calls[r2])
      /\ (apiRes[r1] = apiRes[r2] /\ failure[r1] = failure[r2]) =>
           /\ pc[r1] = pc[r2]
           /\ calls[r1] = calls[r2]
           /\ resp[r1] = resp[r2]

C8_Witness ==
  /\ pc[1] = "done" /\ pc[2] = "awaitApi"
  /\ request[1] = request[2]
  /\ request[1].name = "create_branch"
  /\ Len(calls[1]) = 2 /\ Len(calls[2]) = 2
  /\ apiRes[2] = <<apiRes[1][1]>>
  /\ branches = {"main", "feat"}

====
